---------------------------- MODULE Spec2Model ----------------------------
(***************************************************************************)
(* Model of nbo/dem_to_asc_processor.py: DEMProcessor (load_dem_info,      *)
(* convert_dem_to_asc, rasterize_buildings_chunked, _rasterize_chunk,      *)
(* create_dem_with_buildings_nodata, _write_asc_file,                      *)
(* create_building_footprint_raster, process_all) and main.                *)
(*                                                                         *)
(* Arrays are sequences of rows, 1-based here where numpy is 0-based:      *)
(* model cell (r, c) is numpy cell (r-1, c-1).  World coordinates are      *)
(* integers; a cell centre is compared in doubled coordinates so that no   *)
(* fraction is needed.                                                     *)
(***************************************************************************)
EXTENDS Integers, Sequences, FiniteSets, TLC

VARIABLES
    \* ---- the world outside the process
    dem_tile,          \* the DEM path on disk: [status, ds]
    geojson_file,      \* the building-footprint path on disk: [status, features]
    geojson_modified,  \* the file was rewritten by another process during the run
    cancel_requested,  \* the user has asked for the rasterization to be aborted
    chunks_at_cancel,  \* the number of chunks handed over when the user asked
    gdal_exceptions,   \* whether the installed GDAL bindings raise on error
    files,             \* the three output paths: name -> [exists, lines]
    files_before,      \* what the output paths held when the run started
    output_dir_exists, \* whether the output directory exists
    \* ---- the process
    pc,                \* position in main / process_all
    caller,            \* who called rasterize_buildings_chunked: "b", "c", "direct"
    exit_status,       \* -1 while running, then the process's exit status
    exception,         \* the exception that ended the run, "none" otherwise
    gdal_error,        \* the last error GDAL reported without raising
    log,               \* what was printed, in order
    processor,         \* "none" until DEMProcessor.__init__ has run
    \* ---- DEMProcessor fields set by load_dem_info
    geotransform, width, height, nodata, dem_array,
    \* ---- locals of rasterize_buildings_chunked
    chunk_size, geojson_data, total_features, processed, start_idx,
    buildings_raster,
    \* ---- locals of create_dem_with_buildings_nodata / create_building_footprint_raster
    buildings_mask, output_dem,
    \* ---- locals of _write_asc_file
    w_path, w_array, w_nodata,
    \* ---- history
    rasterize_calls,   \* number of calls of rasterize_buildings_chunked
    chunks,            \* the chunk_features of the current call, in order
    stage,             \* the pipeline stage last entered
    \* download_dem_tile (download_stac_dem_alternative_v2.py)
    items,             \* the catalog items handed to the call
    write_error,       \* how writing output_path goes: "none", "open", "write"
    dpc,               \* position in download_dem_tile
    item_idx,          \* the item the loop is at, counted from 1
    best_data,         \* index of the item whose window is kept, 0 for None
    best_profile,      \* index of the item whose profile is kept, 0 for None
    best_coverage,     \* coverage of the kept item: << overlap_area, tile_area >>
    yielded,           \* the items whose windowed read gave non-empty data
    output_file,       \* output_path on disk: [exists, data, complete]
    result             \* the value returned: "none", "True", "False"

vars == << dem_tile, geojson_file, geojson_modified, cancel_requested,
           chunks_at_cancel, gdal_exceptions, files, files_before,
           output_dir_exists, pc, caller, exit_status, exception, gdal_error,
           log, processor, geotransform, width, height, nodata, dem_array,
           chunk_size, geojson_data, total_features, processed, start_idx,
           buildings_raster, buildings_mask, output_dem, w_path, w_array,
           w_nodata, rasterize_calls, chunks, stage, items, write_error, dpc,
           item_idx, best_data, best_profile, best_coverage, yielded,
           output_file, result >>

(***************************************************************************)
(* Bounds of the model.                                                    *)
(***************************************************************************)
GridWidth == 3          \* columns of the DEMs the model draws
GridHeight == 2         \* rows of the DEMs the model draws
MaxFeatures == 2        \* longest polygon file of a process_all run
MaxChunkFeatures == 3   \* longest collection given to a direct rasterize call
MaxChunkSize == 3       \* largest chunk_size of a direct rasterize call

(***************************************************************************)
(* Program constants.                                                      *)
(***************************************************************************)
DefaultChunkSize == 10000    \* rasterize_buildings_chunked(chunk_size=10000)
AscNoData == -9999           \* the literal the compositor and the writer use

DemTilePath == "dem_tiles/nairobi_dem_tile_00_00.tif"
BuildingsPath == "nbo.geojson"
BasicDemAsc == "Nairobi_DEM.asc"
HousesNoDataAsc == "Nairobi_DEM_housesnodata.asc"
BuildingsAsc == "Nairobi_OSM_buildings.asc"
OutputNames == {BasicDemAsc, HousesNoDataAsc, BuildingsAsc}

(***************************************************************************)
(* Values.                                                                 *)
(***************************************************************************)
Min(a, b) == IF a <= b THEN a ELSE b

\* numpy astype(np.float32) on an integer value: exact up to 2^24, beyond
\* that rounded to the nearest representable value, ties to even.
ToFloat32(v) ==
    LET a == IF v < 0 THEN -v ELSE v
        s == IF v < 0 THEN -1 ELSE 1
        RECURSIVE Ulp(_, _)
        Ulp(x, u) == IF x < 16777216 * u THEN u ELSE Ulp(x, 2 * u)
        u == Ulp(a, 1)
        q == a \div u
        m == a % u
        up == (2 * m > u) \/ (2 * m = u /\ q % 2 = 1)
    IN  IF a <= 16777216 THEN v
        ELSE s * (IF up THEN (q + 1) * u ELSE q * u)

AsTypeFloat32(array) ==
    [r \in 1..Len(array) |-> [c \in 1..Len(array[r]) |-> ToFloat32(array[r][c])]]

\* np.zeros((height, width), dtype=np.uint8)
Zeros(h, w) == [r \in 1..h |-> [c \in 1..w |-> 0]]

\* np.sum of a 0/1 array
RECURSIVE SumSeq(_)
SumSeq(s) == IF s = << >> THEN 0 ELSE Head(s) + SumSeq(Tail(s))
NpSum(array) == SumSeq([r \in 1..Len(array) |-> SumSeq(array[r])])


(***************************************************************************)
(* The grid and the geometry of rasterization.                             *)
(***************************************************************************)
\* get_bounds: (minx, miny, maxx, maxy) from the geotransform
GetBounds(gt, w, h) ==
    LET minx == gt[1]
        maxy == gt[4]
        maxx == minx + w * gt[2]
        miny == maxy + h * gt[6]
    IN  << minx, miny, maxx, maxy >>

\* a raster whose columns are counted from 0 where the model counts from 1
CentreX2Shifted(gt, c) == 2 * gt[1] + (2 * c + 1) * gt[2]

\* Doubled world coordinates of the centre of cell (r, c) under geotransform
\* gt, as the MEM raster that _rasterize_chunk creates places it.
CentreX2(gt, c) == 2 * gt[1] + (2 * c - 1) * gt[2]
CentreY2(gt, r) == 2 * gt[4] + (2 * r - 1) * gt[6]

\* ogr.CreateGeometryFromJson(json.dumps(geometry)): a JSON object without
\* coordinates builds no geometry.
GeometryBuilds(geometry) == "coordinates" \in DOMAIN geometry

\* A ring that encloses area.  The polygons of the model are closed
\* axis-aligned rectangles (five positions); a ring of fewer than three
\* points encloses nothing.
RingHasArea(ring) == Len(ring) >= 4 /\ ring[1] = ring[Len(ring)]

RingMinX(ring) == CHOOSE v \in {ring[i][1] : i \in 1..Len(ring)} :
                      \A i \in 1..Len(ring) : v <= ring[i][1]
RingMaxX(ring) == CHOOSE v \in {ring[i][1] : i \in 1..Len(ring)} :
                      \A i \in 1..Len(ring) : v >= ring[i][1]
RingMinY(ring) == CHOOSE v \in {ring[i][2] : i \in 1..Len(ring)} :
                      \A i \in 1..Len(ring) : v <= ring[i][2]
RingMaxY(ring) == CHOOSE v \in {ring[i][2] : i \in 1..Len(ring)} :
                      \A i \in 1..Len(ring) : v >= ring[i][2]

\* gdal.RasterizeLayer without ALL_TOUCHED burns a cell when its centre lies
\* inside the polygon.  Vertices are integers and the cell size is odd, so a
\* centre never lies on an edge.
Covers(geometry, gt, r, c) ==
    LET ring == geometry.coordinates[1]
    IN  /\ RingHasArea(ring)
        /\ 2 * RingMinX(ring) < CentreX2(gt, c)
        /\ CentreX2(gt, c) < 2 * RingMaxX(ring)
        /\ 2 * RingMinY(ring) < CentreY2(gt, r)
        /\ CentreY2(gt, r) < 2 * RingMaxY(ring)

\* The features of a chunk that end up in the memory layer with a geometry:
\* a feature whose geometry could not be built is created without one.
LayerGeometries(features) ==
    { features[i].geometry : i \in { j \in 1..Len(features) :
                                        GeometryBuilds(features[j].geometry) } }

\* gdal.RasterizeLayer(mem_raster, [1], layer, burn_values=[1]) on a fresh
\* Byte raster, then ReadAsArray: chunk_result.
RasterizeLayer(features, gt, w, h) ==
    [r \in 1..h |-> [c \in 1..w |->
        IF \E g \in LayerGeometries(features) : Covers(g, gt, r, c)
        THEN 1 ELSE 0]]

\* a merge that counts the chunks covering a cell instead of OR-ing them in
MergeChunkAdd(output_array, chunk_result) ==
    [r \in 1..Len(output_array) |-> [c \in 1..Len(output_array[r]) |->
        output_array[r][c] + chunk_result[r][c]]]

\* a merge that flips the cells the chunk covers instead of setting them
MergeChunkToggle(output_array, chunk_result) ==
    [r \in 1..Len(output_array) |-> [c \in 1..Len(output_array[r]) |->
        IF chunk_result[r][c] = 1 THEN 1 - output_array[r][c]
        ELSE output_array[r][c]]]

\* a merge that assigns the chunk's raster instead of OR-ing it in
MergeChunkOverwrite(output_array, chunk_result) == chunk_result

\* output_array[chunk_result == 1] = 1
MergeChunk(output_array, chunk_result) ==
    [r \in 1..Len(output_array) |-> [c \in 1..Len(output_array[r]) |->
        IF chunk_result[r][c] = 1 THEN 1 ELSE output_array[r][c]]]

\* The exception _rasterize_chunk raises while it adds the chunk's features
\* to the layer: the first feature without a 'geometry' member raises
\* KeyError; with raising bindings the first geometry that cannot be built
\* raises RuntimeError.  "none" when every feature is added.
FeatureError(feature, exc) ==
    IF "geometry" \notin DOMAIN feature THEN "KeyError: geometry"
    ELSE IF exc /\ ~GeometryBuilds(feature.geometry)
         THEN "RuntimeError: CreateGeometryFromJson"
    ELSE "none"

ChunkError(features, exc) ==
    LET bad == { i \in 1..Len(features) : FeatureError(features[i], exc) # "none" }
    IN  IF bad = {} THEN "none"
        ELSE FeatureError(features[CHOOSE i \in bad : \A j \in bad : i <= j], exc)

\* a slice that leaves out the feature at end_idx - 1
SliceShort(features, start, end) == SubSeq(features, start + 1, end - 1)

\* geojson_data['features'][start_idx:end_idx], start_idx counted from 0
Slice(features, start, end) == SubSeq(features, start + 1, end)

(***************************************************************************)
(* Compositing and the text of a grid file.                                *)
(***************************************************************************)
\* a compositor that takes the unset cells of the mask for the buildings
CompositeInverted(array, mask) ==
    [r \in 1..Len(array) |-> [c \in 1..Len(array[r]) |->
        IF mask[r][c] = 0 THEN AscNoData ELSE ToFloat32(array[r][c])]]

\* output_dem = dem_array.copy().astype(float32); output_dem[mask == 1] = -9999
Composite(array, mask) ==
    [r \in 1..Len(array) |-> [c \in 1..Len(array[r]) |->
        IF mask[r][c] = 1 THEN AscNoData ELSE ToFloat32(array[r][c])]]

\* The text of a number is the sequence of its characters.
Digits == << "0", "1", "2", "3", "4", "5", "6", "7", "8", "9" >>

RECURSIVE StrNat(_)
StrNat(n) == IF n < 10 THEN << Digits[n + 1] >>
             ELSE Append(StrNat(n \div 10), Digits[(n % 10) + 1])

\* str of a Python int, as an f-string formats self.width or -9999
StrInt(n) == IF n < 0 THEN << "-" >> \o StrNat(-n) ELSE StrNat(n)

\* str of a Python float or of a numpy float32 whose value is a whole number
\* below 10^16: the digits, then ".0"
StrFloat(v) == StrInt(v) \o << ".", "0" >>

\* a compositor without the copy: the masking writes into the loaded array
DemMaskedInPlace(array, mask) ==
    [r \in 1..Len(array) |-> [c \in 1..Len(array[r]) |->
        IF mask[r][c] = 1 THEN AscNoData ELSE array[r][c]]]

\* self.dem_array after the compositing: dem_array.copy() gives the masking
\* its own array, so the loaded one keeps every cell
DemAfterComposite(array, mask) == array

HeaderLine(key, text) == [kind |-> "header", key |-> key, vals |-> << text >>]
\* ' '.join([str(val) for val in row])
DataLine(row) ==
    [kind |-> "data", key |-> "", vals |-> [c \in 1..Len(row) |-> StrFloat(row[c])]]

\* a writer that puts nrows before ncols
AscLinesRowsFirst(array, gt, w, h, nodata_value) ==
    LET b == GetBounds(gt, w, h)
        cellsize == IF gt[2] < 0 THEN -gt[2] ELSE gt[2]
    IN  << HeaderLine("nrows", StrInt(h)),
           HeaderLine("ncols", StrInt(w)),
           HeaderLine("xllcorner", StrFloat(b[1])),
           HeaderLine("yllcorner", StrFloat(b[2])),
           HeaderLine("cellsize", StrFloat(cellsize)),
           HeaderLine("NODATA_value", StrInt(nodata_value)) >>
        \o [r \in 1..Len(array) |-> DataLine(array[r])]

\* a writer that flips the array vertically, last row first
AscLinesFlipped(array, gt, w, h, nodata_value) ==
    LET b == GetBounds(gt, w, h)
        cellsize == IF gt[2] < 0 THEN -gt[2] ELSE gt[2]
    IN  << HeaderLine("ncols", StrInt(w)),
           HeaderLine("nrows", StrInt(h)),
           HeaderLine("xllcorner", StrFloat(b[1])),
           HeaderLine("yllcorner", StrFloat(b[2])),
           HeaderLine("cellsize", StrFloat(cellsize)),
           HeaderLine("NODATA_value", StrInt(nodata_value)) >>
        \o [r \in 1..Len(array) |-> DataLine(array[Len(array) + 1 - r])]

\* The lines _write_asc_file writes, in order: six header lines, then one
\* line per row of the array, first row first.
AscLines(array, gt, w, h, nodata_value) ==
    LET b == GetBounds(gt, w, h)
        cellsize == IF gt[2] < 0 THEN -gt[2] ELSE gt[2]
    IN  << HeaderLine("ncols", StrInt(w)),
           HeaderLine("nrows", StrInt(h)),
           HeaderLine("xllcorner", StrFloat(b[1])),
           HeaderLine("yllcorner", StrFloat(b[2])),
           HeaderLine("cellsize", StrFloat(cellsize)),
           HeaderLine("NODATA_value", StrInt(nodata_value)) >>
        \o [r \in 1..Len(array) |-> DataLine(array[r])]

\* What gdal.Translate(format='AAIGrid', outputType=Float32, noData=-9999)
\* leaves at the output path: the source's cells, converted to Float32, under
\* a header that declares -9999.
TranslateLines(ds) ==
    AscLines(AsTypeFloat32(ds.array), ds.geotransform, ds.width, ds.height,
             AscNoData)

NoFile == [exists |-> FALSE, lines |-> << >>]
FileOf(lines) == [exists |-> TRUE, lines |-> lines]
\* what an earlier run left at an output path
OldFile == FileOf(<< [kind |-> "old", key |-> "", vals |-> << >>] >>)


(***************************************************************************)
(* The inputs the model draws.                                             *)
(***************************************************************************)
SeqsUpTo(S, n) == UNION { [1..k -> S] : k \in 0..n }

\* upper-left corner (36, -1), square cells of size 1, north up
GeoTransforms == { << 36, 1, 0, -1, 0, -1 >> }
Elevations == { 100 }
\* a DEM is flat, or a slope on which every cell has its own elevation
Elevation(e, slope, r, c) == IF slope THEN e + 10 * r + c ELSE e
NoDataValues == { -9999, -32768 }

\* every cell an elevation, or the first cell already nodata in the source
DemArrays(nd) ==
    { [r \in 1..GridHeight |-> [c \in 1..GridWidth |->
          IF first /\ r = 1 /\ c = 1 THEN nd ELSE Elevation(e, slope, r, c)]] :
      first \in BOOLEAN, slope \in BOOLEAN, e \in Elevations }

Datasets ==
    UNION { { [width |-> GridWidth, height |-> GridHeight, geotransform |-> gt,
               nodata |-> nd, array |-> a] : a \in DemArrays(nd) } :
            gt \in GeoTransforms, nd \in NoDataValues }

NullGeoTransform == << 0, 0, 0, 0, 0, 0 >>
NullDataset == [width |-> 0, height |-> 0, geotransform |-> NullGeoTransform,
                nodata |-> 0, array |-> << >>]

DemTiles ==
    { [status |-> "missing", ds |-> NullDataset],
      [status |-> "unreadable", ds |-> NullDataset] }
    \cup { [status |-> "ok", ds |-> d] : d \in Datasets }

RectPolygon(x0, y0, x1, y1) ==
    [type |-> "Polygon",
     coordinates |-> << << <<x0, y0>>, <<x1, y0>>, <<x1, y1>>, <<x0, y1>>,
                           <<x0, y0>> >> >>]

\* the polygon whose boundary is the boundary of cell (r, c)
CellPolygon(gt, r, c) ==
    RectPolygon(gt[1] + (c - 1) * gt[2], gt[4] + r * gt[6],
                gt[1] + c * gt[2], gt[4] + (r - 1) * gt[6])

\* the polygon whose boundary is the boundary of the grid
ExtentPolygon(gt, w, h) ==
    LET b == GetBounds(gt, w, h) IN RectPolygon(b[1], b[2], b[3], b[4])

\* a polygon east of the grid, along its east edge
OutsidePolygon(gt, w, h) ==
    LET b == GetBounds(gt, w, h) IN RectPolygon(b[3], b[2], b[3] + 1, b[4])

\* a polygon north-west of the grid, away from it
FarPolygon(gt, w, h) ==
    LET b == GetBounds(gt, w, h)
    IN  RectPolygon(b[1] - 3, b[4] + 1, b[1] - 1, b[4] + 2)

\* a ring of two points, the diagonal of cell (1, 1)
DegeneratePolygon(gt) ==
    [type |-> "Polygon",
     coordinates |-> << << <<gt[1], gt[4]>>, <<gt[1] + gt[2], gt[4] + gt[6]>> >> >>]

\* a geometry object from which no geometry can be built
UnbuildableGeometry == [type |-> "Polygon"]

Feature(geometry) == [type |-> "Feature", geometry |-> geometry]
\* a feature object without a 'geometry' member
BareFeature == [type |-> "Feature"]

\* a feature whose geometry is malformed: it builds nothing or encloses nothing
Malformed(feature) ==
    /\ "geometry" \in DOMAIN feature
    /\ \/ ~GeometryBuilds(feature.geometry)
       \/ ~RingHasArea(feature.geometry.coordinates[1])

PipelineFeatures ==
    UNION { { Feature(CellPolygon(gt, 1, 1)),
              Feature(CellPolygon(gt, GridHeight, GridWidth)),
              Feature(ExtentPolygon(gt, GridWidth, GridHeight)),
              Feature(DegeneratePolygon(gt)),
              Feature(UnbuildableGeometry),
              BareFeature } : gt \in GeoTransforms }

ChunkFeatures ==
    PipelineFeatures \cup
    UNION { { Feature(OutsidePolygon(gt, GridWidth, GridHeight)),
              Feature(FarPolygon(gt, GridWidth, GridHeight)) } :
            gt \in GeoTransforms }

GeoFiles(kinds, n) ==
    { [status |-> "missing", features |-> << >>],
      [status |-> "unparseable", features |-> << >>] }
    \cup { [status |-> "ok", features |-> fs] : fs \in SeqsUpTo(kinds, n) }

\* the contents another process may give the polygon file during a run:
\* every building removed, or one building on the first cell
ModifiedCollections ==
    { << >> } \cup { << Feature(CellPolygon(gt, 1, 1)) >> : gt \in GeoTransforms }

FreshOutputs == [n \in OutputNames |-> NoFile]
EarlierOutputs == [n \in OutputNames |-> OldFile]

Message(msg, path, nums) == [msg |-> msg, path |-> path, nums |-> nums]

(***************************************************************************)
(* Initial states.                                                         *)
(***************************************************************************)
\* no call of download_dem_tile
NoOutputFile == [exists |-> FALSE, data |-> 0, complete |-> FALSE]

InitTile ==
    /\ items = << >>
    /\ write_error = "none"
    /\ dpc = "idle"
    /\ item_idx = 0
    /\ best_data = 0
    /\ best_profile = 0
    /\ best_coverage = << 0, 1 >>
    /\ yielded = {}
    /\ output_file = NoOutputFile
    /\ result = "none"

\* the process before main has run
InitProcess ==
    /\ pc = "main"
    /\ caller = "none"
    /\ exit_status = -1
    /\ exception = "none"
    /\ gdal_error = "none"
    /\ log = << >>
    /\ processor = "none"
    /\ geotransform = NullGeoTransform
    /\ width = 0
    /\ height = 0
    /\ nodata = 0
    /\ dem_array = << >>
    /\ chunk_size = 0
    /\ geojson_data = << >>
    /\ total_features = 0
    /\ processed = 0
    /\ start_idx = 0
    /\ buildings_raster = << >>
    /\ chunks = << >>
    /\ buildings_mask = << >>
    /\ output_dem = << >>
    /\ w_path = ""
    /\ w_array = << >>
    /\ w_nodata = 0
    /\ rasterize_calls = 0
    /\ stage = "Uninitialized"

Init ==
    /\ dem_tile \in DemTiles
    /\ geojson_file \in GeoFiles(PipelineFeatures, MaxFeatures)
    /\ geojson_modified = FALSE
    /\ cancel_requested = FALSE
    /\ chunks_at_cancel = 0
    /\ gdal_exceptions \in BOOLEAN
    /\ files \in { FreshOutputs, EarlierOutputs }
    /\ files_before = files
    /\ output_dir_exists = (files = EarlierOutputs)
    /\ InitProcess
    /\ InitTile


(***************************************************************************)
(* Groups of variables an action leaves alone.                             *)
(***************************************************************************)
tile == << items, write_error, dpc, item_idx, best_data, best_profile,
           best_coverage, yielded, output_file, result >>
world == << dem_tile, geojson_file, geojson_modified, cancel_requested,
           chunks_at_cancel, gdal_exceptions, files_before, tile >>
grid == << geotransform, width, height, nodata, dem_array >>
loop == << geojson_data, total_features, processed, start_idx,
           buildings_raster, chunks >>
writer == << w_path, w_array, w_nodata >>

\* An uncaught exception leaves main: the interpreter prints the traceback
\* and the process ends with status 1.
Raise(exc) ==
    /\ exception' = exc
    /\ exit_status' = 1
    /\ pc' = "exited"

(***************************************************************************)
(* main                                                                    *)
(***************************************************************************)
\* a main that checks the DEM path only
MissingInputDemOnly(dem, geo) ==
    IF dem.status = "missing" THEN DemTilePath ELSE ""

\* The path main reports as missing, "" when both inputs exist.
MissingInput(dem, geo) ==
    IF dem.status = "missing" THEN DemTilePath
    ELSE IF geo.status = "missing" THEN BuildingsPath
    ELSE ""

\* main up to the call of process_all: the two existence checks, then
\* DEMProcessor.__init__, which creates the output directory.
Main ==
    /\ pc = "main"
    /\ IF MissingInput(dem_tile, geojson_file) # ""
       THEN /\ log' = Append(log,
                 Message(IF MissingInput(dem_tile, geojson_file) = DemTilePath
                         THEN "Error: DEM file not found"
                         ELSE "Error: Building footprint file not found",
                         MissingInput(dem_tile, geojson_file), << >>))
            /\ exit_status' = 1
            /\ pc' = "exited"
            /\ UNCHANGED << processor, output_dir_exists >>
       ELSE /\ processor' = "constructed"
            /\ output_dir_exists' = TRUE
            /\ log' = Append(log, Message("DEM to ASC Processing Started", "", << >>))
            /\ pc' = "load"
            /\ UNCHANGED exit_status
    /\ UNCHANGED << world, files, caller, exception, gdal_error, grid,
                    chunk_size, loop, buildings_mask, output_dem, writer,
                    rasterize_calls, stage >>

(***************************************************************************)
(* DEMProcessor.load_dem_info                                              *)
(***************************************************************************)
LoadDemInfo ==
    /\ pc = "load"
    /\ IF dem_tile.status # "ok"
       THEN \* gdal.Open raises, or returns None and the method raises
            /\ Raise(IF gdal_exceptions THEN "RuntimeError: gdal.Open"
                     ELSE "ValueError: Cannot open DEM file")
            /\ UNCHANGED << grid, log, stage >>
       ELSE /\ geotransform' = dem_tile.ds.geotransform
            /\ dem_array' = dem_tile.ds.array
            /\ nodata' = dem_tile.ds.nodata
            /\ width' = dem_tile.ds.width
            /\ height' = dem_tile.ds.height
            /\ log' = Append(log, Message("DEM dimensions", "",
                                 << dem_tile.ds.width, dem_tile.ds.height >>))
            /\ stage' = "DemLoaded"
            /\ pc' = "convert"
            /\ UNCHANGED << exception, exit_status >>
    /\ UNCHANGED << world, files, output_dir_exists, caller, gdal_error,
                    processor, chunk_size, loop, buildings_mask, output_dem,
                    writer, rasterize_calls >>

(***************************************************************************)
(* DEMProcessor.convert_dem_to_asc, then the entry of                      *)
(* create_dem_with_buildings_nodata, which calls                           *)
(* rasterize_buildings_chunked() with the default chunk size.              *)
(***************************************************************************)
ConvertDemToAsc ==
    /\ pc = "convert"
    /\ files' = [files EXCEPT ![BasicDemAsc] = FileOf(TranslateLines(dem_tile.ds))]
    /\ log' = Append(log, Message("Basic DEM ASC file created", BasicDemAsc, << >>))
    /\ pc' = "rasterize"
    /\ caller' = "b"
    /\ chunk_size' = DefaultChunkSize
    /\ UNCHANGED << world, output_dir_exists, exit_status, exception,
                    gdal_error, processor, grid, loop, buildings_mask,
                    output_dem, writer, rasterize_calls, stage >>

\* gdal.Translate cannot create the output.  Raising bindings raise; the
\* others report the error and return None, which the method ignores.
ConvertDemToAscFails ==
    /\ pc = "convert"
    /\ IF gdal_exceptions
       THEN /\ Raise("RuntimeError: gdal.Translate")
            /\ UNCHANGED << gdal_error, log, caller, chunk_size >>
       ELSE /\ gdal_error' = "translate"
            /\ log' = Append(log, Message("Basic DEM ASC file created",
                                          BasicDemAsc, << >>))
            /\ pc' = "rasterize"
            /\ caller' = "b"
            /\ chunk_size' = DefaultChunkSize
            /\ UNCHANGED << exception, exit_status >>
    /\ UNCHANGED << world, files, output_dir_exists, processor, grid, loop,
                    buildings_mask, output_dem, writer, rasterize_calls,
                    stage >>

(***************************************************************************)
(* DEMProcessor.rasterize_buildings_chunked                                *)
(***************************************************************************)
\* Lines 86-99: the empty raster, then the whole file read and parsed.
RasterizeBegin ==
    /\ pc = "rasterize"
    /\ rasterize_calls' = rasterize_calls + 1
    /\ buildings_raster' = Zeros(height, width)
    /\ chunks' = << >>
    /\ stage' = "MaskAccumulating"
    /\ IF geojson_file.status # "ok"
       THEN /\ Raise(IF geojson_file.status = "missing"
                     THEN "FileNotFoundError" ELSE "JSONDecodeError")
            /\ UNCHANGED << geojson_data, total_features, processed,
                            start_idx, log >>
       ELSE /\ geojson_data' = geojson_file.features
            /\ total_features' = Len(geojson_file.features)
            /\ processed' = 0
            /\ start_idx' = 0
            /\ log' = Append(log, Message("Total building polygons", "",
                                          << Len(geojson_file.features) >>))
            /\ pc' = "chunk"
            /\ UNCHANGED << exception, exit_status >>
    /\ UNCHANGED << world, files, output_dir_exists, caller, gdal_error,
                    processor, grid, chunk_size, buildings_mask, output_dem,
                    writer >>

\* One iteration of the loop of lines 100-118, _rasterize_chunk included.
RasterizeChunk ==
    /\ pc = "chunk"
    /\ start_idx < total_features
    /\ LET end_idx == Min(start_idx + chunk_size, total_features)
           chunk_features == Slice(geojson_data, start_idx, end_idx)
           err == ChunkError(chunk_features, gdal_exceptions)
           chunk_result == RasterizeLayer(chunk_features, geotransform,
                                          width, height)
           done == processed + (end_idx - start_idx)
           chunk_line == Message("Processing chunk", "",
                             << start_idx \div chunk_size + 1,
                                (total_features - 1) \div chunk_size + 1,
                                end_idx - start_idx >>)
       IN  /\ chunks' = Append(chunks, chunk_features)
           /\ IF err # "none"
              THEN /\ Raise(err)
                   /\ log' = Append(log, chunk_line)
                   /\ UNCHANGED << geojson_data, total_features, processed,
                                   start_idx, buildings_raster, gdal_error >>
              ELSE /\ buildings_raster' = MergeChunk(buildings_raster, chunk_result)
                   /\ processed' = done
                   /\ start_idx' = start_idx + chunk_size
                   /\ gdal_error' =
                          IF \E i \in 1..Len(chunk_features) :
                                 ~GeometryBuilds(chunk_features[i].geometry)
                          THEN "geometry" ELSE gdal_error
                   /\ log' = IF done % (chunk_size * 5) = 0
                             THEN Append(Append(log, chunk_line),
                                         Message("Progress", "",
                                                 << done, total_features >>))
                             ELSE Append(log, chunk_line)
                   /\ UNCHANGED << geojson_data, total_features, pc, exception,
                                   exit_status >>
    /\ UNCHANGED << world, files, output_dir_exists, caller, processor, grid,
                    chunk_size, buildings_mask, output_dem, writer,
                    rasterize_calls, stage >>

\* Lines 120-121: the loop is over and the raster is returned to the caller.
RasterizeReturn ==
    /\ pc = "chunk"
    /\ start_idx >= total_features
    /\ buildings_mask' = buildings_raster
    /\ log' = Append(log, Message("Building rasterization complete", "",
                                  << NpSum(buildings_raster) >>))
    /\ stage' = "MaskFinalized"
    /\ pc' = IF caller = "b" THEN "composite"
             ELSE IF caller = "c" THEN "footprint"
             ELSE "returned"
    /\ UNCHANGED << world, files, output_dir_exists, caller, exit_status,
                    exception, gdal_error, processor, grid, chunk_size, loop,
                    output_dem, writer, rasterize_calls >>


(***************************************************************************)
(* DEMProcessor.create_dem_with_buildings_nodata, lines 173-184: the       *)
(* composited array, handed to _write_asc_file.                            *)
(***************************************************************************)
CreateDemWithBuildingsNodata ==
    /\ pc = "composite"
    /\ output_dem' = Composite(dem_array, buildings_mask)
    /\ log' = Append(log, Message("Set pixels to NoData (buildings)", "",
                                  << NpSum(buildings_mask) >>))
    /\ stage' = "Composited"
    /\ w_path' = HousesNoDataAsc
    /\ w_array' = Composite(dem_array, buildings_mask)
    /\ w_nodata' = AscNoData
    /\ dem_array' = DemAfterComposite(dem_array, buildings_mask)
    /\ pc' = "w_open"
    /\ UNCHANGED << world, files, output_dir_exists, caller, exit_status,
                    exception, gdal_error, processor, geotransform, width,
                    height, nodata, chunk_size, loop, buildings_mask,
                    rasterize_calls >>

(***************************************************************************)
(* DEMProcessor.create_building_footprint_raster, lines 213-214: the mask  *)
(* it has just rasterized, handed to _write_asc_file.                      *)
(***************************************************************************)
CreateBuildingFootprintRaster ==
    /\ pc = "footprint"
    /\ w_path' = BuildingsAsc
    /\ w_array' = AsTypeFloat32(buildings_mask)
    /\ w_nodata' = AscNoData
    /\ pc' = "w_open"
    /\ UNCHANGED << world, files, output_dir_exists, caller, exit_status,
                    exception, gdal_error, log, processor, grid, chunk_size,
                    loop, buildings_mask, output_dem, rasterize_calls, stage >>

(***************************************************************************)
(* DEMProcessor._write_asc_file                                            *)
(***************************************************************************)
\* the text the call in progress is to write
WriterLines == AscLines(w_array, geotransform, width, height, w_nodata)

\* open(output_path, 'w'): the file is created, or emptied if it exists
WriteOpen ==
    /\ pc = "w_open"
    /\ files' = [files EXCEPT ![w_path] = FileOf(<< >>)]
    /\ pc' = "w_line"
    /\ UNCHANGED << world, output_dir_exists, caller, exit_status, exception,
                    gdal_error, log, processor, grid, chunk_size, loop,
                    buildings_mask, output_dem, writer, rasterize_calls,
                    stage >>

\* open(output_path, 'w') on a path that cannot be written raises OSError
WriteOpenFails ==
    /\ pc = "w_open"
    /\ Raise("OSError: open")
    /\ UNCHANGED << world, files, output_dir_exists, caller, gdal_error, log,
                    processor, grid, chunk_size, loop, buildings_mask,
                    output_dem, writer, rasterize_calls, stage >>

\* one f.write: the next line reaches the file
WriteLine ==
    /\ pc = "w_line"
    /\ Len(files[w_path].lines) < Len(WriterLines)
    /\ files' = [files EXCEPT ![w_path] =
                    FileOf(Append(files[w_path].lines,
                                  WriterLines[Len(files[w_path].lines) + 1]))]
    /\ UNCHANGED << world, output_dir_exists, pc, caller, exit_status,
                    exception, gdal_error, log, processor, grid, chunk_size,
                    loop, buildings_mask, output_dem, writer, rasterize_calls,
                    stage >>

\* an f.write raises OSError (the device is full, the file system fails);
\* the with block closes the file and the exception leaves the method
WriteFails ==
    /\ pc = "w_line"
    /\ Len(files[w_path].lines) < Len(WriterLines)
    /\ Raise("OSError: write")
    /\ UNCHANGED << world, files, output_dir_exists, caller, gdal_error, log,
                    processor, grid, chunk_size, loop, buildings_mask,
                    output_dem, writer, rasterize_calls, stage >>

\* The with block ends and the method returns.  process_all goes on: after
\* the masked DEM it calls create_building_footprint_raster, which calls
\* rasterize_buildings_chunked() again; after the footprint raster it is done.
WriteClose ==
    /\ pc = "w_line"
    /\ Len(files[w_path].lines) = Len(WriterLines)
    /\ stage' = "Written"
    /\ log' = Append(log, Message("created", w_path, << >>))
    /\ IF w_path = HousesNoDataAsc
       THEN /\ pc' = "rasterize"
            /\ caller' = "c"
            /\ chunk_size' = DefaultChunkSize
       ELSE /\ pc' = "finish"
            /\ UNCHANGED << caller, chunk_size >>
    /\ UNCHANGED << world, files, output_dir_exists, exit_status, exception,
                    gdal_error, processor, grid, loop, buildings_mask,
                    output_dem, writer, rasterize_calls >>

(***************************************************************************)
(* process_all returns its three paths; main prints and the process ends.  *)
(***************************************************************************)
Finish ==
    /\ pc = "finish"
    /\ stage' = "Done"
    /\ log' = Append(log, Message("All ASC files ready for RIM2D simulation!",
                                  HousesNoDataAsc, << >>))
    /\ exit_status' = 0
    /\ pc' = "exited"
    /\ UNCHANGED << world, files, output_dir_exists, caller, exception,
                    gdal_error, processor, grid, chunk_size, loop,
                    buildings_mask, output_dem, writer, rasterize_calls >>

(***************************************************************************)
(* The environment: another process rewrites the polygon file while the    *)
(* run is in progress.  The processor holds no lock on the path and opens  *)
(* it anew in every call of rasterize_buildings_chunked (lines 92-93).     *)
(***************************************************************************)
ModifyPolygonFile ==
    /\ pc \notin {"main", "exited"}
    /\ geojson_file.status = "ok"
    /\ ~geojson_modified
    /\ \E fs \in ModifiedCollections :
           /\ fs # geojson_file.features
           /\ geojson_file' = [geojson_file EXCEPT !.features = fs]
    /\ geojson_modified' = TRUE
    /\ UNCHANGED << dem_tile, cancel_requested, chunks_at_cancel, tile,
                    gdal_exceptions, files_before, files, output_dir_exists,
                    pc, caller, exit_status, exception,
                    gdal_error, log, processor, grid, chunk_size, loop,
                    buildings_mask, output_dem, writer, rasterize_calls,
                    stage >>

(***************************************************************************)
(* One run of main.                                                        *)
(***************************************************************************)
Next ==
    \/ ModifyPolygonFile
    \/ Main
    \/ LoadDemInfo
    \/ ConvertDemToAsc
    \/ ConvertDemToAscFails
    \/ RasterizeBegin
    \/ RasterizeChunk
    \/ RasterizeReturn
    \/ CreateDemWithBuildingsNodata
    \/ CreateBuildingFootprintRaster
    \/ WriteOpen
    \/ WriteOpenFails
    \/ WriteLine
    \/ WriteFails
    \/ WriteClose
    \/ Finish

Spec == Init /\ [][Next]_vars

(***************************************************************************)
(* One call of rasterize_buildings_chunked(chunk_size) on a processor      *)
(* whose DEM is loaded, for any collection and any chunk size.             *)
(***************************************************************************)
\* The call reads the grid of the DEM (size and geotransform), never its
\* elevations: one DEM per grid is enough.
FlatDemTiles ==
    { t \in DemTiles :
          /\ t.status = "ok"
          /\ t.ds.nodata = AscNoData
          /\ \A r \in 1..t.ds.height : \A c \in 1..t.ds.width :
                 t.ds.array[r][c] = t.ds.array[1][1] }

InitChunk ==
    /\ dem_tile \in FlatDemTiles
    /\ geojson_file \in GeoFiles(ChunkFeatures, MaxChunkFeatures)
    /\ geojson_modified = FALSE
    /\ cancel_requested = FALSE
    /\ chunks_at_cancel = 0
    /\ gdal_exceptions \in BOOLEAN
    /\ files = FreshOutputs
    /\ files_before = files
    /\ output_dir_exists = TRUE
    /\ pc = "rasterize"
    /\ caller = "direct"
    /\ exit_status = -1
    /\ exception = "none"
    /\ gdal_error = "none"
    /\ log = << >>
    /\ processor = "constructed"
    /\ geotransform = dem_tile.ds.geotransform
    /\ width = dem_tile.ds.width
    /\ height = dem_tile.ds.height
    /\ nodata = dem_tile.ds.nodata
    /\ dem_array = dem_tile.ds.array
    /\ chunk_size \in 1..MaxChunkSize
    /\ geojson_data = << >>
    /\ total_features = 0
    /\ processed = 0
    /\ start_idx = 0
    /\ buildings_raster = << >>
    /\ chunks = << >>
    /\ buildings_mask = << >>
    /\ output_dem = << >>
    /\ w_path = ""
    /\ w_array = << >>
    /\ w_nodata = 0
    /\ rasterize_calls = 0
    /\ stage = "DemLoaded"
    /\ InitTile

NextChunk ==
    \/ RasterizeBegin
    \/ RasterizeChunk
    \/ RasterizeReturn

SpecChunk == InitChunk /\ [][NextChunk]_vars

(***************************************************************************)
(* The same call, with a user who may ask for it to be aborted.            *)
(***************************************************************************)
\* The environment: the user asks for the running call to be aborted.  The
\* request is all that happens: lines 86-121 read no flag, install no
\* handler and take no argument through which the request could arrive.
RequestCancel ==
    /\ pc \in {"rasterize", "chunk"}
    /\ ~cancel_requested
    /\ cancel_requested' = TRUE
    /\ chunks_at_cancel' = Len(chunks)
    /\ UNCHANGED << dem_tile, geojson_file, geojson_modified, gdal_exceptions,
                    tile, files_before, files, output_dir_exists, pc, caller,
                    exit_status, exception, gdal_error, log, processor, grid,
                    chunk_size, loop, buildings_mask, output_dem, writer,
                    rasterize_calls, stage >>

NextCancel ==
    \/ RequestCancel
    \/ RasterizeBegin
    \/ RasterizeChunk
    \/ RasterizeReturn

SpecCancel == InitChunk /\ [][NextCancel]_vars


(***************************************************************************)
(* download_dem_tile(items, output_path, bbox, tile_name) of               *)
(* download_stac_dem_alternative_v2.py, lines 141-264.                     *)
(***************************************************************************)
MaxItems == 3           \* longest list of catalog items of a call

\* bbox = [lon_min, lat_min, lon_max, lat_max]
TileBBox == << 0, 0, 2, 2 >>

\* src.bounds of the items of the model: covering the tile, covering its
\* west half, covering its east half, and east of the tile along its edge
BoundsOf(left, bottom, right, top) ==
    [left |-> left, bottom |-> bottom, right |-> right, top |-> top]

ItemBounds ==
    { BoundsOf(-1, -1, 3, 3), BoundsOf(-2, 0, 1, 2), BoundsOf(1, 0, 3, 2),
      BoundsOf(2, 0, 4, 2) }

\* A catalog item, by what the calls made on it give: whether a DEM asset is
\* found, what requests.head answers, whether rasterio.open succeeds, the
\* bounds of the source, and what the windowed read gives.
Item(asset, head, open, bounds, read) ==
    [asset |-> asset, head |-> head, open |-> open, bounds |-> bounds,
     read |-> read]

ItemKinds ==
    { Item(FALSE, "200", "ok", b, "data") : b \in { BoundsOf(-1, -1, 3, 3) } }
    \cup { Item(TRUE, h, "ok", BoundsOf(-1, -1, 3, 3), "data") :
               h \in { "403", "raises" } }
    \cup { Item(TRUE, "200", "raises", BoundsOf(-1, -1, 3, 3), "data") }
    \cup { Item(TRUE, "200", "ok", b, r) :
               b \in ItemBounds, r \in { "data", "empty", "raises" } }

Max(a, b) == IF a >= b THEN a ELSE b

\* lines 197-198, negated: the source intersects the bbox
Intersects(b, bbox) ==
    ~ ( \/ b.right <= bbox[1]
        \/ b.left >= bbox[3]
        \/ b.top <= bbox[2]
        \/ b.bottom >= bbox[4] )

\* lines 203-207
OverlapArea(b, bbox) ==
    (Min(b.right, bbox[3]) - Max(b.left, bbox[1]))
        * (Min(b.top, bbox[4]) - Max(b.bottom, bbox[2]))

\* line 209
TileArea(bbox) == (bbox[3] - bbox[1]) * (bbox[4] - bbox[2])

\* Line 210, coverage = overlap_area / tile_area, kept as the pair of its
\* numerator and denominator; line 214 compares two such quotients.
Coverage(b, bbox) == << OverlapArea(b, bbox), TileArea(bbox) >>
GreaterCoverage(a, b) == a[1] * b[2] > b[1] * a[2]

\* every variable of the DEM processor
process == << dem_tile, geojson_file, geojson_modified, cancel_requested,
             chunks_at_cancel, gdal_exceptions, files, files_before,
             output_dir_exists, pc, caller, exit_status, exception,
             gdal_error, log, processor, grid, chunk_size, loop,
             buildings_mask, output_dem, writer, rasterize_calls, stage >>

InitDownload ==
    /\ dem_tile = [status |-> "missing", ds |-> NullDataset]
    /\ geojson_file = [status |-> "missing", features |-> << >>]
    /\ geojson_modified = FALSE
    /\ cancel_requested = FALSE
    /\ chunks_at_cancel = 0
    /\ gdal_exceptions = FALSE
    /\ files = FreshOutputs
    /\ files_before = files
    /\ output_dir_exists = FALSE
    /\ InitProcess
    /\ items \in SeqsUpTo(ItemKinds, MaxItems)
    /\ write_error \in { "none", "open", "write" }
    /\ dpc = "begin"
    /\ item_idx = 0
    /\ best_data = 0
    /\ best_profile = 0
    /\ best_coverage = << 0, 1 >>
    /\ yielded = {}
    /\ output_file = NoOutputFile
    /\ result = "none"

\* lines 155-160
DownloadBegin ==
    /\ dpc = "begin"
    /\ best_data' = 0
    /\ best_profile' = 0
    /\ best_coverage' = << 0, 1 >>
    /\ item_idx' = 1
    /\ dpc' = "items"
    /\ UNCHANGED << process, items, write_error, yielded, output_file, result >>

\* The item reaches the windowed read of line 222: a DEM asset is found
\* (lines 164-184), requests.head answers 200 (188-191), rasterio.open
\* succeeds (194), the source intersects the bbox (197-200) and its coverage
\* is greater than the best so far (214).  A call that raises is caught at
\* line 246 and the loop goes on.
ReadsWindow(item, best) ==
    /\ item.asset
    /\ item.head = "200"
    /\ item.open = "ok"
    /\ Intersects(item.bounds, TileBBox)
    /\ GreaterCoverage(Coverage(item.bounds, TileBBox), best)

\* One iteration of the loop of lines 162-248.
ProcessItem ==
    /\ dpc = "items"
    /\ item_idx <= Len(items)
    /\ LET item == items[item_idx]
           \* line 225: the read returned, and data.size > 0
           better == ReadsWindow(item, best_coverage) /\ item.read = "data"
       IN  /\ best_data' = IF better THEN item_idx ELSE best_data
           /\ best_profile' = IF better THEN item_idx ELSE best_profile
           /\ best_coverage' = IF better THEN Coverage(item.bounds, TileBBox)
                               ELSE best_coverage
           /\ yielded' = IF better THEN yielded \cup { item_idx } ELSE yielded
    /\ item_idx' = item_idx + 1
    /\ UNCHANGED << process, items, write_error, dpc, output_file, result >>

\* Lines 251-257: the best data is written and the call returns True.
SaveBest ==
    /\ dpc = "items"
    /\ item_idx > Len(items)
    /\ best_data # 0 /\ best_profile # 0
    /\ write_error = "none"
    /\ output_file' = [exists |-> TRUE, data |-> best_data, complete |-> TRUE]
    /\ result' = "True"
    /\ dpc' = "returned"
    /\ UNCHANGED << process, items, write_error, item_idx, best_data,
                    best_profile, best_coverage, yielded >>

\* Lines 252-253 raise, and lines 262-264 catch: rasterio.open(.., 'w')
\* fails before the file is created, or dst.write fails after it was; the
\* dataset is closed by the with statement and the file stays.
SaveBestFails ==
    /\ dpc = "items"
    /\ item_idx > Len(items)
    /\ best_data # 0 /\ best_profile # 0
    /\ write_error # "none"
    /\ output_file' =
           IF write_error = "open" THEN output_file
           ELSE [exists |-> TRUE, data |-> best_data, complete |-> FALSE]
    /\ result' = "False"
    /\ dpc' = "returned"
    /\ UNCHANGED << process, items, write_error, item_idx, best_data,
                    best_profile, best_coverage, yielded >>

\* Lines 258-260: no item gave data.
NoValidData ==
    /\ dpc = "items"
    /\ item_idx > Len(items)
    /\ ~(best_data # 0 /\ best_profile # 0)
    /\ result' = "False"
    /\ dpc' = "returned"
    /\ UNCHANGED << process, items, write_error, item_idx, best_data,
                    best_profile, best_coverage, yielded, output_file >>

NextDownload ==
    \/ DownloadBegin
    \/ ProcessItem
    \/ SaveBest
    \/ SaveBestFails
    \/ NoValidData

SpecDownload == InitDownload /\ [][NextDownload]_vars


(***************************************************************************)
(* Properties.                                                             *)
(***************************************************************************)
Finished == pc \in { "exited", "returned" }

\* the mask one batch holding the whole collection gives
SingleBatchMask ==
    MergeChunk(Zeros(height, width),
               RasterizeLayer(geojson_data, geotransform, width, height))

\* C1 (under SpecChunk): chunk-size invariance.  Whatever the chunk size,
\* a call that returns gives the mask that a single batch holding the whole
\* collection gives, and a call raises in _rasterize_chunk exactly when the
\* single batch raises, with the same exception; so any two chunk sizes
\* agree cell for cell.
C1_ChunkSizeInvariance ==
    /\ pc = "returned" =>
          /\ ChunkError(geojson_data, gdal_exceptions) = "none"
          /\ buildings_mask = SingleBatchMask
    /\ (pc = "exited" /\ geojson_file.status = "ok") =>
          exception = ChunkError(geojson_data, gdal_exceptions)

\* a call that took three chunks, two of which set a different cell each
C1_Witness ==
    /\ pc = "returned"
    /\ chunk_size = 1
    /\ total_features = 3
    /\ NpSum(buildings_mask) = 2

\* C2: composite correctness.  In the composited array every cell set in
\* the mask holds the nodata value of the loaded DEM and every other cell
\* holds the input elevation.
C2_CompositeCorrectness ==
    (pc \in { "w_open", "w_line" } /\ w_path = HousesNoDataAsc) =>
        \A r \in 1..height : \A c \in 1..width :
            output_dem[r][c] = IF buildings_mask[r][c] = 1 THEN nodata
                               ELSE dem_array[r][c]

\* C3: in one run of process_all the mask is computed exactly once.
C3_MaskComputedOnce ==
    /\ rasterize_calls <= 1
    /\ (pc = "exited" /\ exit_status = 0) => rasterize_calls = 1

\* C4: when _write_asc_file fails, the destination holds its previous
\* content or nothing (no file, or no text), never the beginning of a grid.
C4_NoPartialFile ==
    (pc = "exited" /\ exception \in { "OSError: open", "OSError: write" }) =>
        \/ files[w_path] = files_before[w_path]
        \/ ~files[w_path].exists
        \/ files[w_path].lines = << >>

\* the exceptions of a failed precondition: the DEM cannot be opened, the
\* polygon file cannot be opened or parsed
PreconditionErrors ==
    { "ValueError: Cannot open DEM file", "RuntimeError: gdal.Open",
      "FileNotFoundError", "JSONDecodeError" }

\* C5: a run that ends with a precondition failure has created or modified
\* none of the three output files.
C5_PreconditionAbortsBeforeOutput ==
    (pc = "exited" /\ exception \in PreconditionErrors) =>
        files = files_before

\* C6: when the DEM file or the building-footprint file does not exist,
\* main prints one message that names the missing path and the process ends
\* with status 1; no processor was constructed, so the output directory,
\* the output files and the processor's fields are as they were.
C6_MissingInputExits ==
    (pc # "main" /\ ( \/ dem_tile.status = "missing"
                      \/ geojson_file.status = "missing" )) =>
        /\ pc = "exited"
        /\ exit_status = 1
        /\ exception = "none"
        /\ Len(log) = 1
        /\ log[1].path = ( IF dem_tile.status = "missing" THEN DemTilePath
                           ELSE BuildingsPath )
        /\ log[1].msg = ( IF dem_tile.status = "missing"
                          THEN "Error: DEM file not found"
                          ELSE "Error: Building footprint file not found" )
        /\ processor = "none"
        /\ output_dir_exists = (files_before = EarlierOutputs)
        /\ files = files_before
        /\ dem_array = << >>
        /\ rasterize_calls = 0
        /\ stage = "Uninitialized"

\* main has ended on a missing building-footprint file, the DEM being there
C6_Witness ==
    /\ pc = "exited"
    /\ dem_tile.status = "ok"
    /\ geojson_file.status = "missing"
    /\ exit_status = 1

StageRank(s) ==
    CASE s = "Uninitialized" -> 0
      [] s = "DemLoaded" -> 1
      [] s = "MaskAccumulating" -> 2
      [] s = "MaskFinalized" -> 3
      [] s = "Composited" -> 4
      [] s = "Written" -> 5
      [] s = "Done" -> 6

\* C7: the stages are entered in the order Uninitialized, DemLoaded,
\* MaskAccumulating, MaskFinalized, Composited, Written, Done and only
\* forward: no step enters a stage earlier than the one the run is in.
C7_StagesOnlyForward ==
    [][StageRank(stage') >= StageRank(stage)]_vars

\* a stage of the pipeline has failed
StageFailed == exception # "none" \/ gdal_error = "translate"

\* C8: a failure at any stage is terminal: once a stage has failed the
\* process has ended, with a non-zero exit status.
C8_FailureIsTerminal ==
    StageFailed => (pc = "exited" /\ exit_status # 0 /\ exit_status # -1)

\* the warnings printed for the feature at index i (counted from 0)
WarningsFor(i) ==
    { k \in 1..Len(log) : log[k].msg = "Warning" /\ log[k].nums = << i >> }

\* C9 (under SpecChunk): a malformed geometry is skipped without aborting:
\* for a collection whose features all carry a geometry, the call returns,
\* the mask is the one the other features give, and exactly one warning
\* with the index of each malformed geometry has been printed.
C9_MalformedSkippedWithWarning ==
    ( /\ Finished
      /\ geojson_file.status = "ok"
      /\ \A i \in 1..Len(geojson_file.features) :
             "geometry" \in DOMAIN geojson_file.features[i] ) =>
        \A i \in 1..Len(geojson_file.features) :
            Malformed(geojson_file.features[i]) =>
                /\ pc = "returned"
                /\ buildings_mask = SingleBatchMask
                /\ Cardinality(WarningsFor(i - 1)) = 1


(***************************************************************************)
(* Reading a grid file back: the text of a number parsed as a decimal.     *)
(***************************************************************************)
DigitValue(ch) == CHOOSE d \in 0..9 : Digits[d + 1] = ch

RECURSIVE DigitsValue(_)
DigitsValue(chars) ==
    IF chars = << >> THEN 0
    ELSE 10 * DigitsValue(SubSeq(chars, 1, Len(chars) - 1))
         + DigitValue(chars[Len(chars)])

RECURSIVE Pow10(_)
Pow10(k) == IF k = 0 THEN 1 ELSE 10 * Pow10(k - 1)

\* A decimal text as [num, scale]: its value is num / 10^scale.
ParseNumber(text) ==
    LET neg == Len(text) > 0 /\ text[1] = "-"
        body == IF neg THEN Tail(text) ELSE text
        dots == { i \in 1..Len(body) : body[i] = "." }
        dot == IF dots = {} THEN Len(body) + 1 ELSE CHOOSE i \in dots : TRUE
        whole == SubSeq(body, 1, dot - 1)
        frac == SubSeq(body, dot + 1, Len(body))
        n == DigitsValue(whole \o frac)
    IN  [num |-> IF neg THEN -n ELSE n, scale |-> Len(frac)]

\* the parsed text denotes the number v
Denotes(text, v) ==
    LET p == ParseNumber(text) IN p.num = v * Pow10(p.scale)

\* the whole number a parsed text denotes (the texts of the model are whole)
WholeValue(text) ==
    LET p == ParseNumber(text) IN p.num \div Pow10(p.scale)

HeaderKeys == << "ncols", "nrows", "xllcorner", "yllcorner", "cellsize",
                 "NODATA_value" >>

\* The lines are a grid file: the six header lines in order, each with one
\* value, then nothing but data lines.
IsGridText(lines) ==
    /\ Len(lines) >= Len(HeaderKeys)
    /\ \A i \in 1..Len(HeaderKeys) :
           /\ lines[i].kind = "header"
           /\ lines[i].key = HeaderKeys[i]
           /\ Len(lines[i].vals) = 1
    /\ \A i \in (Len(HeaderKeys) + 1)..Len(lines) : lines[i].kind = "data"

HeaderText(lines, i) == lines[i].vals[1]
DataLines(lines) == SubSeq(lines, Len(HeaderKeys) + 1, Len(lines))

\* the writer has returned from writing this path
Completed(path) ==
    \E k \in 1..Len(log) : log[k].msg = "created" /\ log[k].path = path

\* Reading the lines back gives the grid of the loaded DEM (dimensions,
\* upper-left origin, cell size, nodata sentinel) and the array.
RoundTrips(lines, array) ==
    /\ IsGridText(lines)
    /\ Denotes(HeaderText(lines, 1), width)
    /\ Denotes(HeaderText(lines, 2), height)
    /\ Denotes(HeaderText(lines, 3), geotransform[1])
    /\ Denotes(HeaderText(lines, 5), geotransform[2])
    /\ WholeValue(HeaderText(lines, 4))
           + WholeValue(HeaderText(lines, 2)) * WholeValue(HeaderText(lines, 5))
       = geotransform[4]
    /\ Denotes(HeaderText(lines, 6), nodata)
    /\ Len(DataLines(lines)) = Len(array)
    /\ \A r \in 1..Len(array) :
           /\ Len(DataLines(lines)[r].vals) = Len(array[r])
           /\ \A c \in 1..Len(array[r]) :
                  Denotes(DataLines(lines)[r].vals[c], array[r][c])

\* C11: serialization round trip.  Reading back a file that
\* _write_asc_file has written gives the same grid (ncols, nrows, the origin
\* recovered from xllcorner, yllcorner and cellsize, and the grid's nodata
\* sentinel as NODATA_value) and the same array values.
C11_RoundTrip ==
    /\ Completed(HousesNoDataAsc) =>
           RoundTrips(files[HousesNoDataAsc].lines, output_dem)
    /\ Completed(BuildingsAsc) =>
           RoundTrips(files[BuildingsAsc].lines, AsTypeFloat32(buildings_mask))

\* C12: a file that _write_asc_file has written is six header lines in the
\* order ncols, nrows, xllcorner, yllcorner, cellsize, NODATA_value, then
\* exactly nrows data lines of exactly ncols values each and nothing else;
\* ncols and nrows are the grid's width and height.
C12_FileLayout ==
    \A path \in { HousesNoDataAsc, BuildingsAsc } :
        Completed(path) =>
            /\ IsGridText(files[path].lines)
            /\ Denotes(HeaderText(files[path].lines, 1), width)
            /\ Denotes(HeaderText(files[path].lines, 2), height)
            /\ Len(files[path].lines) = Len(HeaderKeys) + height
            /\ \A r \in 1..Len(DataLines(files[path].lines)) :
                   Len(DataLines(files[path].lines)[r].vals) = width

\* both files of a run are complete, on a grid that is not square
C12_Witness ==
    /\ Completed(HousesNoDataAsc)
    /\ Completed(BuildingsAsc)
    /\ width # height

\* the values a data line holds
RowValues(line) == [c \in 1..Len(line.vals) |-> WholeValue(line.vals[c])]

C14_CompositeIdentity ==
    (stage = "Composited" /\ NpSum(buildings_mask) = 0) =>
        /\ Len(output_dem) = Len(dem_array)
        /\ \A r \in 1..Len(dem_array) : output_dem[r] = dem_array[r]

\* a compositing under an empty mask, of a DEM that has a nodata cell, for a
\* polygon file that is not empty
C14_Witness ==
    /\ stage = "Composited"
    /\ NpSum(buildings_mask) = 0
    /\ total_features > 0
    /\ dem_array[1][1] = nodata
    /\ nodata # AscNoData

\* C15: compositing makes a new array and leaves the loaded DEM alone: from
\* load_dem_info to the end of the run dem_array holds the values read from
\* the file, and geotransform, width, height and nodata do not change.
C15_DemNotMutated ==
    stage # "Uninitialized" =>
        /\ dem_array = dem_tile.ds.array
        /\ geotransform = dem_tile.ds.geotransform
        /\ width = dem_tile.ds.width
        /\ height = dem_tile.ds.height
        /\ nodata = dem_tile.ds.nodata

\* a complete run in which the compositing masked a cell
C15_Witness ==
    /\ pc = "exited"
    /\ exit_status = 0
    /\ NpSum(buildings_mask) > 0
    /\ output_dem # dem_array


\* the polygon lies entirely outside the bounding box of the grid
OutsideGrid(geometry) ==
    LET ring == geometry.coordinates[1]
        b == GetBounds(geotransform, width, height)
    IN  \/ RingMaxX(ring) <= b[1]
        \/ RingMinX(ring) >= b[3]
        \/ RingMaxY(ring) <= b[2]
        \/ RingMinY(ring) >= b[4]

\* the (rectangular) polygon covers the full extent of the grid
CoversGrid(geometry) ==
    LET ring == geometry.coordinates[1]
        b == GetBounds(geotransform, width, height)
    IN  /\ RingHasArea(ring)
        /\ RingMinX(ring) <= b[1]
        /\ RingMaxX(ring) >= b[3]
        /\ RingMinY(ring) <= b[2]
        /\ RingMaxY(ring) >= b[4]

\* the indices of the features that carry a polygon satisfying P
Polygons(P(_)) ==
    { i \in 1..Len(geojson_data) :
          /\ "geometry" \in DOMAIN geojson_data[i]
          /\ GeometryBuilds(geojson_data[i].geometry)
          /\ P(geojson_data[i].geometry) }

InsideOrAcross(geometry) == ~OutsideGrid(geometry)

\* C16 (under SpecChunk): a polygon entirely outside the grid's bounding box
\* sets no cell: every set cell of the returned mask is covered by a polygon
\* that is not outside, and a collection of outside polygons gives the empty
\* mask.  A polygon covering the full extent sets every cell.
C16_ExtentBehaviour ==
    pc = "returned" =>
        /\ \A r \in 1..height : \A c \in 1..width :
               buildings_mask[r][c] = 1 =>
                   \E i \in Polygons(InsideOrAcross) :
                       Covers(geojson_data[i].geometry, geotransform, r, c)
        /\ Polygons(InsideOrAcross) = {} => NpSum(buildings_mask) = 0
        /\ Polygons(CoversGrid) # {} => NpSum(buildings_mask) = width * height

\* a call given an outside polygon in one chunk and the full extent in another
C16_Witness ==
    /\ pc = "returned"
    /\ chunk_size = 1
    /\ Polygons(OutsideGrid) # {}
    /\ Polygons(CoversGrid) # {}
    /\ NpSum(buildings_mask) = width * height

\* a call given outside polygons only
C16_WitnessOutside ==
    /\ pc = "returned"
    /\ total_features = 2
    /\ Cardinality(Polygons(OutsideGrid)) = 2
    /\ NpSum(buildings_mask) = 0

\* the collection holds one polygon, exactly covering the cell (r, c)
OnlyCell(r, c) == geojson_data = << Feature(CellPolygon(geotransform, r, c)) >>

\* C17: a polygon exactly covering one cell (r, c) gives a mask whose only
\* set cell is (r, c), and a composited output equal to the input everywhere
\* except at (r, c), where it is the nodata value of the grid.
C17_SingleCellExactness ==
    \A r \in 1..GridHeight : \A c \in 1..GridWidth :
        (stage = "Composited" /\ OnlyCell(r, c)) =>
            /\ buildings_mask =
                   [i \in 1..height |->
                       [j \in 1..width |-> IF i = r /\ j = c THEN 1 ELSE 0]]
            /\ output_dem =
                   [i \in 1..height |->
                       [j \in 1..width |->
                           IF i = r /\ j = c THEN nodata ELSE dem_array[i][j]]]

\* C18 (under SpecChunk): the accumulated mask starts with every cell unset,
\* every cell always holds 0 or 1, and across a chunk merge a cell only
\* changes from 0 to 1, never from 1 back to 0.
C18_MaskMonotone ==
    [][ /\ (pc = "rasterize" /\ pc' = "chunk") =>
               \A r \in 1..height : \A c \in 1..width :
                   buildings_raster'[r][c] = 0
        /\ pc' = "chunk" =>
               /\ Len(buildings_raster') = height
               /\ \A r \in 1..height :
                      /\ Len(buildings_raster'[r]) = width
                      /\ \A c \in 1..width : buildings_raster'[r][c] \in {0, 1}
        /\ (pc = "chunk" /\ pc' = "chunk") =>
               \A r \in 1..height : \A c \in 1..width :
                   buildings_raster[r][c] = 1 => buildings_raster'[r][c] = 1
      ]_vars

CoversFirstCell(geometry) == Covers(geometry, geotransform, 1, 1)

\* the chunks (of one feature each) of two features both cover cell (1, 1)
C18_Witness ==
    /\ pc = "returned"
    /\ chunk_size = 1
    /\ Cardinality(Polygons(CoversFirstCell)) >= 2
    /\ buildings_mask[1][1] = 1
    /\ NpSum(buildings_mask) < width * height

\* the number of chunks of the collection, and the raster of the i-th one
NumChunks == (total_features + chunk_size - 1) \div chunk_size

ChunkResult(i) ==
    RasterizeLayer(Slice(geojson_data, (i - 1) * chunk_size,
                         Min(i * chunk_size, total_features)),
                   geotransform, width, height)

\* the mask after merging the rasters of a sequence into output_array
RECURSIVE MergeInOrder(_, _)
MergeInOrder(rasters, output_array) ==
    IF rasters = << >> THEN output_array
    ELSE MergeInOrder(Tail(rasters), MergeChunk(output_array, Head(rasters)))

\* the order p with its j-th chunk processed twice in a row
Twice(p, j) == SubSeq(p, 1, j) \o SubSeq(p, j, Len(p))

\* C19 (under SpecChunk): merging the chunks of a collection in any order
\* gives the mask the loop returns, and so does any order in which one chunk
\* is merged twice.
C19_MergeCommutativeIdempotent ==
    pc = "returned" =>
        LET results == [i \in 1..NumChunks |-> ChunkResult(i)]
        IN  \A p \in Permutations(1..NumChunks) :
                LET order == [i \in 1..NumChunks |-> results[p[i]]]
                IN  /\ MergeInOrder(order, Zeros(height, width))
                           = buildings_mask
                    /\ \A j \in 1..NumChunks :
                           MergeInOrder(Twice(order, j), Zeros(height, width))
                               = buildings_mask

\* a collection of one-feature chunks, one covering a cell and one the grid
C19_Witness ==
    /\ pc = "returned"
    /\ NumChunks = MaxChunkFeatures
    /\ \E i, j \in 1..NumChunks :
           /\ NpSum(ChunkResult(i)) = 1
           /\ NpSum(ChunkResult(j)) = width * height
    /\ ChunkResult(1) # ChunkResult(NumChunks)

\* the features of a sequence of chunks, one chunk after the other
RECURSIVE Concat(_)
Concat(seqs) ==
    IF seqs = << >> THEN << >> ELSE Head(seqs) \o Concat(Tail(seqs))

\* C20 (under SpecChunk): the chunks handed to _rasterize_chunk, one after
\* the other, are the first `processed` features of the collection in their
\* original order (contiguous, none twice, none left out), each chunk holds
\* between 1 and chunk_size features, and when the loop ends the processed
\* counter equals the number of features.
C20_ChunksPartition ==
    pc \in {"chunk", "returned"} =>
        /\ processed <= Len(geojson_data)
        /\ Concat(chunks) = SubSeq(geojson_data, 1, processed)
        /\ \A i \in 1..Len(chunks) :
               Len(chunks[i]) >= 1 /\ Len(chunks[i]) <= chunk_size
        /\ pc = "returned" =>
               /\ processed = Len(geojson_data)
               /\ Concat(chunks) = geojson_data

\* a collection that does not divide evenly: a full chunk, then a shorter one
C20_Witness ==
    /\ pc = "returned"
    /\ chunk_size = 2
    /\ total_features = 3
    /\ Len(chunks) = 2
    /\ Len(chunks[1]) = 2
    /\ Len(chunks[2]) = 1
    /\ processed = 3

\* the value read back from row r, column c of a written grid file
FileCell(path, r, c) == RowValues(DataLines(files[path].lines)[r])[c]

\* C21: outputs (b) and (c) of one complete run are mutually consistent, even
\* if the polygon file is modified during the run: a cell is 1 in the
\* building-footprint grid if and only if it was overwritten with the nodata
\* value in the masked DEM.  (A cell whose source elevation already is the
\* value written cannot show an overwrite and is left out.)
C21_OutputsConsistent ==
    (pc = "exited" /\ exit_status = 0) =>
        \A r \in 1..height : \A c \in 1..width :
            dem_array[r][c] # AscNoData =>
                ( FileCell(BuildingsAsc, r, c) = 1
                    <=> FileCell(HousesNoDataAsc, r, c) = AscNoData )

\* C22 (under SpecCancel): once the user has asked for an abort, at most the
\* chunk being processed at that moment is finished and no further chunk is
\* handed to the rasterizer.
C22_CancelStopsChunks ==
    cancel_requested => Len(chunks) <= chunks_at_cancel + 1

\* the items that give non-empty windowed data: the asset is found and
\* accessible, the source opens and intersects the bbox, the read gives data
Yielders ==
    { i \in 1..Len(items) :
          /\ items[i].asset
          /\ items[i].head = "200"
          /\ items[i].open = "ok"
          /\ Intersects(items[i].bounds, TileBBox)
          /\ items[i].read = "data" }

\* the item of greatest coverage in a non-empty set, the earliest on ties
Greatest(S) ==
    CHOOSE i \in S : \A j \in S \ { i } :
        LET ci == OverlapArea(items[i].bounds, TileBBox)
            cj == OverlapArea(items[j].bounds, TileBBox)
        IN  ci > cj \/ (ci = cj /\ i < j)

\* C23 (under SpecDownload): download_dem_tile returns True and writes the
\* output file if and only if at least one item yielded non-empty windowed
\* data; the data written is that of the item of greatest coverage among
\* them, the earliest on ties; when it returns False no output file is
\* written; the call always returns (no exception escapes).
C23_DownloadBestTile ==
    dpc = "returned" =>
        /\ result \in { "True", "False" }
        /\ (result = "True") <=> (Yielders # {})
        /\ result = "True" =>
               /\ yielded # {}
               /\ output_file = [exists |-> TRUE, data |-> Greatest(Yielders),
                                 complete |-> TRUE]
        /\ result = "False" => ~output_file.exists

=============================================================================
